---- MODULE Spec2Model ----
(***************************************************************************)
(* Model of the YouTube-summary backend (Fabiodales/BACKEND-2-WEBAPP).     *)
(* The repository holds six iterations of one express server; `variant`    *)
(* says which one is deployed.  Each route handler is an async function:   *)
(* one action per segment between two awaits.  The upstream services       *)
(* (OpenAI chat completion, DeepL, youtube-transcript, YouTube Data API)   *)
(* are the environment: their replies are chosen nondeterministically.     *)
(***************************************************************************)
EXTENDS Integers, Sequences, FiniteSets, TLC

VARIABLES variant, deeplKey, pc, req, summary, calls, replies, resp

vars == <<variant, deeplKey, pc, req, summary, calls, replies, resp>>

(***************************************************************************)
(* Bounds of the model.                                                    *)
(***************************************************************************)
MaxSegs == 2
MaxSummaryLen == 2
MaxLangLen == 4

(***************************************************************************)
(* The six server files.                                                   *)
(***************************************************************************)
Variants == {"serverA", "serverB", "part001", "part002", "part003", "part004"}

\* Variants built from the extended template (8000 characters, upper-cased
\* target language, explicit parameter checks).
ExtendedVariants == {"serverA", "part004"}

(***************************************************************************)
(* Strings.  A long text is a sequence of pieces [lit, len]: `len`         *)
(* characters identified by `lit` (a run of one character, or a literal of *)
(* that length); a prefix of a piece is the same lit with a smaller len.   *)
(* No piece has length 0.  A short text (an upstream reply) is a sequence  *)
(* of one-character strings.                                               *)
(***************************************************************************)
Piece(lit, n) == [lit |-> lit, len |-> n]

Lit(lit, n) == IF n = 0 THEN <<>> ELSE <<Piece(lit, n)>>

RECURSIVE TextLen(_)
TextLen(t) == IF t = <<>> THEN 0 ELSE Head(t).len + TextLen(Tail(t))

\* String.prototype.substring(0, n)
RECURSIVE Substring0(_, _)
Substring0(t, n) ==
  IF t = <<>> \/ n <= 0 THEN <<>>
  ELSE IF Head(t).len <= n
       THEN <<Head(t)>> \o Substring0(Tail(t), n - Head(t).len)
       ELSE <<Piece(Head(t).lit, n)>>

\* Array.prototype.join(' ') over the segments' texts
RECURSIVE JoinSpace(_)
JoinSpace(texts) ==
  IF texts = <<>> THEN <<>>
  ELSE IF Len(texts) = 1 THEN Head(texts)
  ELSE Head(texts) \o Lit(" ", 1) \o JoinSpace(Tail(texts))

CharsToText(cs) == [i \in 1..Len(cs) |-> Piece(cs[i], 1)]

WsChars == {" ", "\n", "\t", "\r"}

RECURSIVE TrimStart(_)
TrimStart(cs) ==
  IF cs # <<>> /\ Head(cs) \in WsChars THEN TrimStart(Tail(cs)) ELSE cs

RECURSIVE TrimEnd(_)
TrimEnd(cs) ==
  IF cs # <<>> /\ cs[Len(cs)] \in WsChars
  THEN TrimEnd(SubSeq(cs, 1, Len(cs) - 1)) ELSE cs

\* String.prototype.trim()
Trim(cs) == TrimEnd(TrimStart(cs))

LowerChar(c) ==
  CASE c = "E" -> "e"
    [] c = "N" -> "n"
    [] c = "I" -> "i"
    [] c = "T" -> "t"
    [] OTHER -> c

\* String.prototype.toLowerCase()
ToLowerCase(cs) == [i \in 1..Len(cs) |-> LowerChar(cs[i])]

(***************************************************************************)
(* JSON values and JSON.parse.  A value is [t, s, keys, items]: t its      *)
(* type; s the characters of a string or number; keys and items the        *)
(* members of an object; items the elements of an array.  The parser       *)
(* covers objects, arrays, strings without escapes, unsigned integers and  *)
(* the three literals, with JSON's whitespace.                             *)
(***************************************************************************)
JNull == [t |-> "null", s |-> <<>>, keys |-> <<>>, items |-> <<>>]
JTrue == [t |-> "true", s |-> <<>>, keys |-> <<>>, items |-> <<>>]
JFalse == [t |-> "false", s |-> <<>>, keys |-> <<>>, items |-> <<>>]
JStr(cs) == [t |-> "string", s |-> cs, keys |-> <<>>, items |-> <<>>]
JNum(cs) == [t |-> "number", s |-> cs, keys |-> <<>>, items |-> <<>>]
JArr(items) == [t |-> "array", s |-> <<>>, keys |-> <<>>, items |-> items]
JObj(keys, items) == [t |-> "object", s |-> <<>>, keys |-> keys, items |-> items]

Digits == {"0", "1", "2", "3", "4", "5", "6", "7", "8", "9"}

ParseFail == [ok |-> FALSE, val |-> JNull, pos |-> 0]
ParseOk(v, p) == [ok |-> TRUE, val |-> v, pos |-> p]

RECURSIVE SkipWs(_, _)
SkipWs(s, i) == IF i <= Len(s) /\ s[i] \in WsChars THEN SkipWs(s, i + 1) ELSE i

\* index of the quote closing a string whose first character is s[j]; 0 if none
RECURSIVE StringEnd(_, _)
StringEnd(s, j) ==
  IF j > Len(s) \/ s[j] \in {"\\", "\n", "\t", "\r"} THEN 0
  ELSE IF s[j] = "\"" THEN j
  ELSE StringEnd(s, j + 1)

RECURSIVE DigitsEnd(_, _)
DigitsEnd(s, j) == IF j <= Len(s) /\ s[j] \in Digits THEN DigitsEnd(s, j + 1) ELSE j

ParseString(s, i) ==
  LET e == StringEnd(s, i + 1)
  IN IF e = 0 THEN ParseFail ELSE ParseOk(JStr(SubSeq(s, i + 1, e - 1)), e + 1)

ParseNumber(s, i) ==
  LET e == DigitsEnd(s, i)
  IN IF s[i] = "0" /\ e > i + 1 THEN ParseFail
     ELSE ParseOk(JNum(SubSeq(s, i, e - 1)), e)

ParseLiteral(s, i, word, v) ==
  IF i + Len(word) - 1 <= Len(s) /\ SubSeq(s, i, i + Len(word) - 1) = word
  THEN ParseOk(v, i + Len(word)) ELSE ParseFail

\* an object member set twice keeps its first position and its last value
PutMember(o, k, v) ==
  IF \E n \in 1..Len(o.keys) : o.keys[n] = k
  THEN LET n == CHOOSE n \in 1..Len(o.keys) : o.keys[n] = k
       IN JObj(o.keys, [o.items EXCEPT ![n] = v])
  ELSE JObj(Append(o.keys, k), Append(o.items, v))

RECURSIVE ParseValue(_, _)
RECURSIVE ParseElements(_, _, _)
RECURSIVE ParseMembers(_, _, _)

ParseValue(s, i) ==
  LET j == SkipWs(s, i)
  IN IF j > Len(s) THEN ParseFail
     ELSE CASE s[j] = "{" ->
                 LET k == SkipWs(s, j + 1)
                 IN IF k <= Len(s) /\ s[k] = "}"
                    THEN ParseOk(JObj(<<>>, <<>>), k + 1)
                    ELSE ParseMembers(s, k, JObj(<<>>, <<>>))
            [] s[j] = "[" ->
                 LET k == SkipWs(s, j + 1)
                 IN IF k <= Len(s) /\ s[k] = "]"
                    THEN ParseOk(JArr(<<>>), k + 1)
                    ELSE ParseElements(s, k, <<>>)
            [] s[j] = "\"" -> ParseString(s, j)
            [] s[j] \in Digits -> ParseNumber(s, j)
            [] s[j] = "n" -> ParseLiteral(s, j, <<"n", "u", "l", "l">>, JNull)
            [] s[j] = "t" -> ParseLiteral(s, j, <<"t", "r", "u", "e">>, JTrue)
            [] s[j] = "f" -> ParseLiteral(s, j, <<"f", "a", "l", "s", "e">>, JFalse)
            [] OTHER -> ParseFail

ParseElements(s, i, acc) ==
  LET r == ParseValue(s, i)
  IN IF ~r.ok THEN ParseFail
     ELSE LET k == SkipWs(s, r.pos)
          IN IF k > Len(s) THEN ParseFail
             ELSE IF s[k] = "," THEN ParseElements(s, k + 1, Append(acc, r.val))
             ELSE IF s[k] = "]" THEN ParseOk(JArr(Append(acc, r.val)), k + 1)
             ELSE ParseFail

ParseMembers(s, i, o) ==
  LET j == SkipWs(s, i)
  IN IF j > Len(s) \/ s[j] # "\"" THEN ParseFail
     ELSE LET key == ParseString(s, j)
          IN IF ~key.ok THEN ParseFail
             ELSE LET c == SkipWs(s, key.pos)
                  IN IF c > Len(s) \/ s[c] # ":" THEN ParseFail
                     ELSE LET r == ParseValue(s, c + 1)
                          IN IF ~r.ok THEN ParseFail
                             ELSE LET k == SkipWs(s, r.pos)
                                      o2 == PutMember(o, key.val.s, r.val)
                                  IN IF k > Len(s) THEN ParseFail
                                     ELSE IF s[k] = "," THEN ParseMembers(s, k + 1, o2)
                                     ELSE IF s[k] = "}" THEN ParseOk(o2, k + 1)
                                     ELSE ParseFail

\* JSON.parse(text): [ok, val]; ~ok is the SyntaxError it throws
JSONParse(s) ==
  LET r == ParseValue(s, 1)
  IN IF r.ok /\ SkipWs(s, r.pos) = Len(s) + 1
     THEN [ok |-> TRUE, val |-> r.val]
     ELSE [ok |-> FALSE, val |-> JNull]

(***************************************************************************)
(* The fallback concept maps of the variants that recover from a failed    *)
(* parse.                                                                  *)
(***************************************************************************)
KNodes == <<"n", "o", "d", "e", "s">>
KEdges == <<"e", "d", "g", "e", "s">>
KConceptMap == <<"c", "o", "n", "c", "e", "p", "t", "M", "a", "p">>
KConnections == <<"c", "o", "n", "n", "e", "c", "t", "i", "o", "n", "s">>
KId == <<"i", "d">>
KLabel == <<"l", "a", "b", "e", "l">>
KGroup == <<"g", "r", "o", "u", "p">>
KSource == <<"s", "o", "u", "r", "c", "e">>
KTarget == <<"t", "a", "r", "g", "e", "t">>
KError == <<"e", "r", "r", "o", "r">>
SRoot == <<"r", "o", "o", "t">>
SOne == <<"1">>
STwo == <<"2">>
SZero == <<"0">>
SMainTopic == <<"M", "a", "i", "n", " ", "T", "o", "p", "i", "c">>
SSubtopic1 == <<"S", "u", "b", "t", "o", "p", "i", "c", " ", "1">>
SSubtopic2 == <<"S", "u", "b", "t", "o", "p", "i", "c", " ", "2">>
SFailedToParse == <<"F", "a", "i", "l", "e", "d", " ", "t", "o", " ", "p", "a", "r", "s", "e", " ", "c", "o", "n", "c", "e", "p", "t", " ", "m", "a", "p", " ", "J", "S", "O", "N", ".">>

JNode(id, label) == JObj(<<KId, KLabel>>, <<JStr(id), JStr(label)>>)

JGroupNode(id, label, g) ==
  JObj(<<KId, KLabel, KGroup>>, <<JStr(id), JStr(label), JNum(g)>>)

JEdge(a, b) == JObj(<<KSource, KTarget>>, <<JStr(a), JStr(b)>>)

FallbackEdges == JArr(<<JEdge(SRoot, SOne), JEdge(SRoot, STwo)>>)

FallbackNodesEdges ==
  JObj(<<KNodes, KEdges>>,
       <<JArr(<<JNode(SRoot, SMainTopic), JNode(SOne, SSubtopic1),
                JNode(STwo, SSubtopic2)>>),
         FallbackEdges>>)

FallbackConnections ==
  JObj(<<KConceptMap, KConnections>>,
       <<JArr(<<JGroupNode(SRoot, SMainTopic, SZero),
                JGroupNode(SOne, SSubtopic1, SOne),
                JGroupNode(STwo, SSubtopic2, SOne)>>),
         FallbackEdges>>)

FallbackErrorObject == JObj(<<KError>>, <<JStr(SFailedToParse)>>)

\* the value the inner catch assigns to conceptMap
FallbackConceptMap(v) ==
  CASE v = "serverA" -> FallbackNodesEdges
    [] v = "part002" -> FallbackConnections
    [] OTHER -> FallbackErrorObject

\* variants whose JSON.parse of the concept map sits in its own try/catch
GuardedParseVariants == {"serverA", "part001", "part002", "part003"}

\* variants whose summarize makes the second (concept map) call
ConceptMapVariants == {"serverA", "serverB", "part001", "part002", "part003"}

(***************************************************************************)
(* Requests, upstream calls, upstream replies, responses.                  *)
(***************************************************************************)
Undefined == "undefined"

Absent == [present |-> FALSE, val |-> <<>>]
Present(x) == [present |-> TRUE, val |-> x]

\* !x for a string-valued body field
Falsy(s) == s = Undefined \/ s = ""

NoBody ==
  [route |-> "none", transcript |-> Absent, language |-> Undefined,
   length |-> Undefined, text |-> Absent, targetLanguage |-> Undefined,
   videoId |-> Undefined]

NoCall ==
  [site |-> "none", user |-> <<>>, language |-> Undefined, max_tokens |-> 0,
   text |-> Absent, target_lang |-> Undefined, id |-> Undefined]

\* a reply of openai.createChatCompletion: it rejects (ok = FALSE), or
\* resolves with data.choices missing, empty, or holding one choice whose
\* message.content is a string or is missing
ChatReply(ok, choices, hasContent, content) ==
  [site |-> "chat", ok |-> ok, choices |-> choices, hasContent |-> hasContent,
   content |-> content, list |-> Absent, translation |-> Absent]

ChatFaults ==
  { ChatReply(FALSE, "missing", FALSE, <<>>),
    ChatReply(TRUE, "missing", FALSE, <<>>),
    ChatReply(TRUE, "empty", FALSE, <<>>),
    ChatReply(TRUE, "one", FALSE, <<>>) }

ChatText(content) == ChatReply(TRUE, "one", TRUE, content)

BoundedSeqs(S, n) == UNION {[1..k -> S] : k \in 0..n}

NoResponse ==
  [status |-> 0, success |-> FALSE, has |-> {}, error |-> "",
   summary |-> <<>>, conceptMap |-> JNull, language |-> <<>>,
   translation |-> "", transcript |-> <<>>]

\* res.status(status).json({ success: false, error: msg })
ErrorResponse(status, msg) ==
  [NoResponse EXCEPT !.status = status, !.has = {"success", "error"},
                     !.error = msg]

\* the outer catch of every handler
CatchResponse(msg) == ErrorResponse(500, msg)

SuccessResponse == [NoResponse EXCEPT !.status = 200, !.success = TRUE]

(***************************************************************************)
(* /api/summarize                                                          *)
(***************************************************************************)
SegTexts == {Lit("a", 5), Lit("b", 3994), Lit("c", 8000)}

\* a transcript is a sequence of segments { text }
Transcripts ==
  {[i \in 1..Len(ts) |-> [text |-> ts[i]]] : ts \in BoundedSeqs(SegTexts, MaxSegs)}

Languages == {Undefined, "english"}
Lengths == {Undefined, "short", "medium", "long", "huge", "toString"}

SummarizeBodies ==
  {[NoBody EXCEPT !.route = "summarize", !.transcript = t, !.language = l,
                  !.length = n] :
     t \in {Absent} \cup {Present(x) : x \in Transcripts},
     l \in Languages, n \in Lengths}

StrLen(s) ==
  CASE s = "english" -> 7
    [] s = "short" -> 5
    [] s = "medium" -> 6
    [] s = "long" -> 4
    [] s = "huge" -> 4
    [] s = "undefined" -> 9
    [] s = "toString" -> 8
    [] OTHER -> 0

\* the early returns before the first await: the response, or NoResponse
SummarizeRejection(v, b) ==
  CASE v = "serverA" /\ (~b.transcript.present \/ Falsy(b.language) \/ Falsy(b.length))
         -> ErrorResponse(400, "Missing parameters.")
    [] v = "part004" /\ (~b.transcript.present \/ Falsy(b.language))
         -> ErrorResponse(400, "Missing parameters.")
    [] v = "part003" /\ (~b.transcript.present \/ Len(b.transcript.val) = 0)
         -> ErrorResponse(400, "Transcript is empty")
    [] OTHER -> NoResponse

\* transcript.map(item => item.text).join(' ')
FullText(transcript) == JoinSpace([i \in 1..Len(transcript) |-> transcript[i].text])

\* TruncLimit with the older limit left in every variant
TruncLimitOld(v) == 4000

TruncLimit(v) == IF v \in ExtendedVariants THEN 8000 ELSE 4000

InstructionsText ==
  "\n\nInstructions:\n- Use headings (h2, h3, etc.) for sections\n- Use emojis for key concepts\n- Be detailed, do not be extremely short\n- Language: "

\* the user message of the summary call
SummaryUserContent(v, b) ==
  LET cut == Substring0(FullText(b.transcript.val), TruncLimit(v))
  IN CASE v = "serverA" ->
            Lit("Transcript:\n\n", 13) \o cut \o Lit(InstructionsText, 142)
              \o Lit(b.language, StrLen(b.language)) \o Lit("\n- length: ", 11)
              \o Lit(b.length, StrLen(b.length))
              \o Lit(" (short, medium, long)\n", 23)
       [] v = "part004" ->
            Lit("Transcript:\n\n", 13) \o cut \o Lit(InstructionsText, 142)
              \o Lit(b.language, StrLen(b.language)) \o Lit("\n", 1)
       [] OTHER -> cut

\* max_tokens of the summary call.  In the lookup { short, medium, long }[length]
\* a name the object literal inherits (toString) yields a function: it is
\* truthy, so || 500 does not apply, and the request body is sent without a
\* max_tokens member (0, as in NoCall)
MaxTokens(v, length) ==
  CASE v = "serverA" ->
         IF length = "long" THEN 1200 ELSE IF length = "medium" THEN 800 ELSE 500
    [] v = "part004" -> 800
    [] OTHER ->
         CASE length = "short" -> 300
           [] length = "medium" -> 500
           [] length = "long" -> 800
           [] length = "toString" -> 0
           [] OTHER -> 500

SummaryCall(v, b) ==
  [NoCall EXCEPT !.site = "summary", !.user = SummaryUserContent(v, b),
                 !.language = b.language, !.max_tokens = MaxTokens(v, b.length)]

\* SummaryOutcome without the trim
SummaryOutcomeUntrimmed(v, reply) ==
  IF ~reply.ok THEN [ok |-> FALSE, summary |-> <<>>, error |-> "UpstreamError"]
  ELSE IF v = "part003" /\ reply.choices # "one"
  THEN [ok |-> FALSE, summary |-> <<>>, error |-> "OpenAI returned an empty response"]
  ELSE IF reply.choices # "one" \/ ~reply.hasContent
  THEN [ok |-> FALSE, summary |-> <<>>, error |-> "TypeError"]
  ELSE [ok |-> TRUE, summary |-> reply.content, error |-> ""]

\* SummaryOutcome taking an empty choice list for an empty summary
SummaryOutcomeEmptyAsBlank(v, reply) ==
  IF ~reply.ok THEN [ok |-> FALSE, summary |-> <<>>, error |-> "UpstreamError"]
  ELSE IF reply.choices = "empty"
  THEN [ok |-> TRUE, summary |-> <<>>, error |-> ""]
  ELSE IF reply.choices # "one" \/ ~reply.hasContent
  THEN [ok |-> FALSE, summary |-> <<>>, error |-> "TypeError"]
  ELSE [ok |-> TRUE, summary |-> Trim(reply.content), error |-> ""]

\* what follows the first await: [ok, summary, error]
SummaryOutcome(v, reply) ==
  IF ~reply.ok THEN [ok |-> FALSE, summary |-> <<>>, error |-> "UpstreamError"]
  ELSE IF v = "part003" /\ reply.choices # "one"
  THEN [ok |-> FALSE, summary |-> <<>>, error |-> "OpenAI returned an empty response"]
  ELSE IF reply.choices # "one" \/ ~reply.hasContent
  THEN [ok |-> FALSE, summary |-> <<>>, error |-> "TypeError"]
  ELSE [ok |-> TRUE, summary |-> Trim(reply.content), error |-> ""]

ConceptMapMaxTokens(v) == IF v = "serverA" THEN 1200 ELSE 1000

ConceptMapCall(v, s) ==
  [NoCall EXCEPT !.site = "conceptMap", !.user = CharsToText(s),
                 !.max_tokens = ConceptMapMaxTokens(v)]

\* JSON.parse(conceptMapResponse.data.choices[0].message.content.trim()):
\* [ok, val, error]; ~ok is what the expression throws
ConceptMapParse(reply) ==
  IF reply.choices # "one" \/ ~reply.hasContent
  THEN [ok |-> FALSE, val |-> JNull, error |-> "TypeError"]
  ELSE LET p == JSONParse(Trim(reply.content))
       IN [ok |-> p.ok, val |-> p.val,
           error |-> IF p.ok THEN "" ELSE "SyntaxError"]

\* ConceptMapOutcome with a schema check added: a parsed value without a
\* nodes member is replaced by the fallback
ConceptMapOutcomeValidating(v, reply) ==
  IF ~reply.ok THEN [ok |-> FALSE, conceptMap |-> JNull, error |-> "UpstreamError"]
  ELSE LET p == ConceptMapParse(reply)
       IN IF p.ok /\ p.val.t = "object"
               /\ (\E n \in 1..Len(p.val.keys) : p.val.keys[n] = KNodes)
          THEN [ok |-> TRUE, conceptMap |-> p.val, error |-> ""]
          ELSE IF v \in GuardedParseVariants \/ p.ok
          THEN [ok |-> TRUE, conceptMap |-> FallbackConceptMap(v), error |-> ""]
          ELSE [ok |-> FALSE, conceptMap |-> JNull, error |-> p.error]

\* ConceptMapOutcome with the second await inside the inner try: a rejected
\* call is recovered by the fallback like a parse error
ConceptMapOutcomeRecovering(v, reply) ==
  IF ~reply.ok /\ v \notin GuardedParseVariants
  THEN [ok |-> FALSE, conceptMap |-> JNull, error |-> "UpstreamError"]
  ELSE IF ~reply.ok
  THEN [ok |-> TRUE, conceptMap |-> FallbackConceptMap(v), error |-> ""]
  ELSE LET p == ConceptMapParse(reply)
       IN IF p.ok THEN [ok |-> TRUE, conceptMap |-> p.val, error |-> ""]
          ELSE IF v \in GuardedParseVariants
          THEN [ok |-> TRUE, conceptMap |-> FallbackConceptMap(v), error |-> ""]
          ELSE [ok |-> FALSE, conceptMap |-> JNull, error |-> p.error]

\* what follows the second await: [ok, conceptMap, error]
ConceptMapOutcome(v, reply) ==
  IF ~reply.ok THEN [ok |-> FALSE, conceptMap |-> JNull, error |-> "UpstreamError"]
  ELSE LET p == ConceptMapParse(reply)
       IN IF p.ok THEN [ok |-> TRUE, conceptMap |-> p.val, error |-> ""]
          ELSE IF v \in GuardedParseVariants
          THEN [ok |-> TRUE, conceptMap |-> FallbackConceptMap(v), error |-> ""]
          ELSE [ok |-> FALSE, conceptMap |-> JNull, error |-> p.error]

SummaryOnlyResponse(s) ==
  [SuccessResponse EXCEPT !.has = {"success", "summary"}, !.summary = s]

SummarizeResponse(s, cm) ==
  [SuccessResponse EXCEPT !.has = {"success", "summary", "conceptMap"},
                          !.summary = s, !.conceptMap = cm]

SummaryContents == BoundedSeqs({" ", "S"}, MaxSummaryLen)

\* '{"nodes":[{"id":"1","label":"A"}],"edges":[]}'
CmSchemaText ==
  <<"{", "\"", "n", "o", "d", "e", "s", "\"", ":", "[", "{", "\"", "i",
    "d", "\"", ":", "\"", "1", "\"", ",", "\"", "l", "a", "b", "e", "l",
    "\"", ":", "\"", "A", "\"", "}", "]", ",", "\"", "e", "d", "g", "e",
    "s", "\"", ":", "[", "]", "}">>

\* '{}'
CmEmptyObjectText ==
  <<"{", "}">>

\* '[]'
CmArrayText ==
  <<"[", "]">>

\* '7'
CmNumberText ==
  <<"7">>

\* '"x"'
CmStringText ==
  <<"\"", "x", "\"">>

\* 'null'
CmNullText ==
  <<"n", "u", "l", "l">>

\* ' {"a":[1,2]}\n'
CmPaddedText ==
  <<" ", "{", "\"", "a", "\"", ":", "[", "1", ",", "2", "]", "}", "\n">>

\* '{"nodes":['
CmTruncatedText ==
  <<"{", "\"", "n", "o", "d", "e", "s", "\"", ":", "[">>

\* '{} ok'
CmTrailingProseText ==
  <<"{", "}", " ", "o", "k">>

\* ''
CmEmptyText ==
  <<>>

\* 'Map:'
CmProseText ==
  <<"M", "a", "p", ":">>

ConceptMapContents ==
  { CmSchemaText, CmEmptyObjectText, CmArrayText, CmNumberText, CmStringText,
    CmNullText, CmPaddedText, CmTruncatedText, CmTrailingProseText,
    CmEmptyText, CmProseText }

SummaryReplies == ChatFaults \cup {ChatText(c) : c \in SummaryContents}
ConceptMapReplies == ChatFaults \cup {ChatText(c) : c \in ConceptMapContents}

(***************************************************************************)
(* The handlers.  Request r is idle, then awaits an upstream reply, then   *)
(* is done; calls[r], replies[r] and resp[r] record, in order, the         *)
(* upstream calls it issued, the replies it got and the responses it sent. *)
(***************************************************************************)
Requests == DOMAIN pc

\* Send with an outer catch that logs the error and sends nothing
SendUnlessCaught(r, response) ==
  /\ resp' = [resp EXCEPT ![r] = IF response.status = 500 THEN @
                                   ELSE Append(@, response)]
  /\ pc' = [pc EXCEPT ![r] = "done"]

\* res.status(..).json(..) and the handler returns
Send(r, response) ==
  /\ resp' = [resp EXCEPT ![r] = Append(@, response)]
  /\ pc' = [pc EXCEPT ![r] = "done"]

\* an upstream call is issued and the handler awaits it
Await(r, call, label) ==
  /\ calls' = [calls EXCEPT ![r] = Append(@, call)]
  /\ pc' = [pc EXCEPT ![r] = label]

Receive(r, reply) == replies' = [replies EXCEPT ![r] = Append(@, reply)]

\* app.post('/api/summarize') up to the first await
SummarizeStartFrom(r, bodies) ==
  /\ pc[r] = "idle"
  /\ \E b \in bodies :
       /\ req' = [req EXCEPT ![r] = b]
       /\ LET rej == SummarizeRejection(variant, b)
          IN IF rej # NoResponse
             THEN Send(r, rej) /\ UNCHANGED calls
             ELSE IF ~b.transcript.present
             THEN Send(r, CatchResponse("TypeError")) /\ UNCHANGED calls
             ELSE Await(r, SummaryCall(variant, b), "awaitSummary")
                    /\ UNCHANGED resp
  /\ UNCHANGED <<variant, deeplKey, summary, replies>>

SummarizeStart(r) == SummarizeStartFrom(r, SummarizeBodies)

\* SummaryReply with one retry: a rejected first summary call is issued again
SummaryReplyRetrying(r) ==
  /\ pc[r] = "awaitSummary"
  /\ \E reply \in SummaryReplies :
       /\ Receive(r, reply)
       /\ LET out == SummaryOutcome(variant, reply)
          IN IF ~reply.ok /\ Len(calls[r]) = 1
             THEN Await(r, calls[r][1], "awaitSummary") /\ UNCHANGED <<resp, summary>>
             ELSE IF ~out.ok
             THEN Send(r, CatchResponse(out.error)) /\ UNCHANGED <<calls, summary>>
             ELSE /\ summary' = [summary EXCEPT ![r] = out.summary]
                  /\ IF variant \in ConceptMapVariants
                     THEN Await(r, ConceptMapCall(variant, out.summary),
                                "awaitConceptMap") /\ UNCHANGED resp
                     ELSE Send(r, SummaryOnlyResponse(out.summary))
                            /\ UNCHANGED calls
  /\ UNCHANGED <<variant, deeplKey, req>>

\* from the summary call's reply to the second await (or the response)
SummaryReplyFrom(r, rs) ==
  /\ pc[r] = "awaitSummary"
  /\ \E reply \in rs :
       /\ Receive(r, reply)
       /\ LET out == SummaryOutcome(variant, reply)
          IN IF ~out.ok
             THEN Send(r, CatchResponse(out.error)) /\ UNCHANGED <<calls, summary>>
             ELSE /\ summary' = [summary EXCEPT ![r] = out.summary]
                  /\ IF variant \in ConceptMapVariants
                     THEN Await(r, ConceptMapCall(variant, out.summary),
                                "awaitConceptMap") /\ UNCHANGED resp
                     ELSE Send(r, SummaryOnlyResponse(out.summary))
                            /\ UNCHANGED calls
  /\ UNCHANGED <<variant, deeplKey, req>>

SummaryReply(r) == SummaryReplyFrom(r, SummaryReplies)

\* ConceptMapReplyFrom with the summary kept in one variable of the module, which
\* every request overwrites: the response carries the summary stored by the
\* highest-numbered request that has one
ConceptMapReplySharedSummary(r, rs) ==
  /\ pc[r] = "awaitConceptMap"
  /\ \E reply \in rs :
       /\ Receive(r, reply)
       /\ LET out == ConceptMapOutcome(variant, reply)
              holders == {q \in Requests : summary[q] # <<>>}
              last == IF holders = {} THEN r
                      ELSE CHOOSE q \in holders : \A o \in holders : o <= q
          IN IF out.ok
             THEN Send(r, SummarizeResponse(summary[last], out.conceptMap))
             ELSE Send(r, CatchResponse(out.error))
  /\ UNCHANGED <<variant, deeplKey, req, summary, calls>>

\* from the concept-map call's reply to the response
ConceptMapReplyFrom(r, rs) ==
  /\ pc[r] = "awaitConceptMap"
  /\ \E reply \in rs :
       /\ Receive(r, reply)
       /\ LET out == ConceptMapOutcome(variant, reply)
          IN IF out.ok
             THEN Send(r, SummarizeResponse(summary[r], out.conceptMap))
             ELSE Send(r, CatchResponse(out.error))
  /\ UNCHANGED <<variant, deeplKey, req, summary, calls>>

ConceptMapReply(r) == ConceptMapReplyFrom(r, ConceptMapReplies)

(***************************************************************************)
(* /api/detect-language                                                    *)
(***************************************************************************)
DetectTexts ==
  {Absent, Present(<<>>), Present(Lit("d", 50)), Present(Lit("d", 150)),
   Present(Lit("d", 350))}

DetectBodies == {[NoBody EXCEPT !.route = "detect", !.text = t] : t \in DetectTexts}

DetectLimit(v) == IF v \in ExtendedVariants THEN 300 ELSE 100

\* the response sent before any call, or NoResponse
DetectRejection(v, b) ==
  IF v \in ExtendedVariants
  THEN IF ~b.text.present \/ b.text.val = <<>>
       THEN ErrorResponse(400, "Missing text input.") ELSE NoResponse
  ELSE IF ~b.text.present THEN CatchResponse("TypeError") ELSE NoResponse

DetectCall(v, b) ==
  [NoCall EXCEPT !.site = "detect",
                 !.user = Substring0(b.text.val, DetectLimit(v)),
                 !.max_tokens = 5]

\* DetectedLanguage without toLowerCase()
DetectedLanguageNoLower(content) == Trim(content)

\* response.data.choices[0].message.content.trim().toLowerCase()
DetectedLanguage(content) == ToLowerCase(Trim(content))

DetectOutcome(reply) ==
  IF ~reply.ok THEN [ok |-> FALSE, language |-> <<>>, error |-> "UpstreamError"]
  ELSE IF reply.choices # "one" \/ ~reply.hasContent
  THEN [ok |-> FALSE, language |-> <<>>, error |-> "TypeError"]
  ELSE [ok |-> TRUE, language |-> DetectedLanguage(reply.content), error |-> ""]

DetectResponse(l) ==
  [SuccessResponse EXCEPT !.has = {"success", "language"}, !.language = l]

DetectContents == BoundedSeqs({" ", "\n", "E", "N"}, MaxLangLen)

DetectReplies == ChatFaults \cup {ChatText(c) : c \in DetectContents}

DetectStartFrom(r, bodies) ==
  /\ pc[r] = "idle"
  /\ \E b \in bodies :
       /\ req' = [req EXCEPT ![r] = b]
       /\ LET rej == DetectRejection(variant, b)
          IN IF rej # NoResponse
             THEN Send(r, rej) /\ UNCHANGED calls
             ELSE Await(r, DetectCall(variant, b), "awaitDetect") /\ UNCHANGED resp
  /\ UNCHANGED <<variant, deeplKey, summary, replies>>

DetectStart(r) == DetectStartFrom(r, DetectBodies)

DetectReplyFrom(r, rs) ==
  /\ pc[r] = "awaitDetect"
  /\ \E reply \in rs :
       /\ Receive(r, reply)
       /\ LET out == DetectOutcome(reply)
          IN IF out.ok THEN Send(r, DetectResponse(out.language))
             ELSE Send(r, CatchResponse(out.error))
  /\ UNCHANGED <<variant, deeplKey, req, summary, calls>>

DetectReply(r) == DetectReplyFrom(r, DetectReplies)

(***************************************************************************)
(* /api/translate                                                          *)
(***************************************************************************)
TargetLanguages ==
  {Undefined, "english", "italian", "spanish", "french", "german",
   "portuguese", "klingon", "it", "toString"}

TranslateTexts == {Absent, Present(<<>>), Present(Lit("t", 20))}

TranslateBodies ==
  {[NoBody EXCEPT !.route = "translate", !.text = t, !.targetLanguage = l] :
     t \in TranslateTexts, l \in TargetLanguages}

InheritedFunction == "function toString() { [native code] }"
Omitted == "<omitted>"

\* languageMap[targetLanguage]: the six own properties, and what the object
\* literal inherits from Object.prototype
LanguageMap(name) ==
  CASE name = "english" -> "EN"
    [] name = "italian" -> "IT"
    [] name = "spanish" -> "ES"
    [] name = "french" -> "FR"
    [] name = "german" -> "DE"
    [] name = "portuguese" -> "PT"
    [] name = "toString" -> InheritedFunction
    [] OTHER -> Undefined

\* String.prototype.toUpperCase()
ToUpperCase(name) ==
  CASE name = "english" -> "ENGLISH"
    [] name = "italian" -> "ITALIAN"
    [] name = "spanish" -> "SPANISH"
    [] name = "french" -> "FRENCH"
    [] name = "german" -> "GERMAN"
    [] name = "portuguese" -> "PORTUGUESE"
    [] name = "klingon" -> "KLINGON"
    [] name = "it" -> "IT"
    [] name = "toString" -> "TOSTRING"
    [] OTHER -> name

\* variants that post a JSON body (a function-valued member is left out of
\* it); the others post URLSearchParams (every value is turned into a string)
JsonBodyVariants == {"serverA", "serverB", "part002", "part004"}

\* TargetLang without the `|| 'EN'` default
TargetLangNoDefault(v, name) ==
  IF v \in ExtendedVariants THEN ToUpperCase(name) ELSE LanguageMap(name)

\* target_lang as the translation API receives it
TargetLang(v, name) ==
  IF v \in ExtendedVariants THEN ToUpperCase(name)
  ELSE LET code == LanguageMap(name)
       IN IF code = Undefined THEN "EN"
          ELSE IF code = InheritedFunction /\ v \in JsonBodyVariants THEN Omitted
          ELSE code

\* the response sent before any call, or NoResponse
TranslateRejection(v, key, b) ==
  CASE v \in ExtendedVariants /\ ~key
         -> ErrorResponse(500, "Missing DEEPL_API_KEY.")
    [] v \in ExtendedVariants /\ key
         /\ (~b.text.present \/ b.text.val = <<>> \/ Falsy(b.targetLanguage))
         -> ErrorResponse(400, "Missing text or targetLanguage.")
    [] v = "part002" /\ ~key -> CatchResponse("Missing DeepL API Key.")
    [] OTHER -> NoResponse

TranslateCall(v, b) ==
  [NoCall EXCEPT !.site = "translate", !.text = b.text,
                 !.target_lang = TargetLang(v, b.targetLanguage)]

\* a reply of the translation API: it rejects, or resolves with
\* data.translations missing, empty, or holding one translation
DeeplReply(ok, list, t) ==
  [site |-> "deepl", ok |-> ok, choices |-> list, hasContent |-> list = "one",
   content |-> <<>>, list |-> Absent, translation |-> t]

TranslateReplies ==
  { DeeplReply(FALSE, "missing", Absent), DeeplReply(TRUE, "missing", Absent),
    DeeplReply(TRUE, "empty", Absent), DeeplReply(TRUE, "one", Present("ciao")),
    DeeplReply(TRUE, "one", Present("")) }

\* response.data.translations[0].text
TranslateOutcome(reply) ==
  IF ~reply.ok THEN [ok |-> FALSE, translation |-> "", error |-> "UpstreamError"]
  ELSE IF reply.choices # "one"
  THEN [ok |-> FALSE, translation |-> "", error |-> "TypeError"]
  ELSE [ok |-> TRUE, translation |-> reply.translation.val, error |-> ""]

TranslateResponse(t) ==
  [SuccessResponse EXCEPT !.has = {"success", "translation"}, !.translation = t]

TranslateStartFrom(r, bodies) ==
  /\ pc[r] = "idle"
  /\ \E b \in bodies :
       /\ req' = [req EXCEPT ![r] = b]
       /\ LET rej == TranslateRejection(variant, deeplKey, b)
          IN IF rej # NoResponse
             THEN Send(r, rej) /\ UNCHANGED calls
             ELSE Await(r, TranslateCall(variant, b), "awaitTranslate")
                    /\ UNCHANGED resp
  /\ UNCHANGED <<variant, deeplKey, summary, replies>>

TranslateStart(r) == TranslateStartFrom(r, TranslateBodies)

TranslateReplyFrom(r, rs) ==
  /\ pc[r] = "awaitTranslate"
  /\ \E reply \in rs :
       /\ Receive(r, reply)
       /\ LET out == TranslateOutcome(reply)
          IN IF out.ok THEN Send(r, TranslateResponse(out.translation))
             ELSE Send(r, CatchResponse(out.error))
  /\ UNCHANGED <<variant, deeplKey, req, summary, calls>>

TranslateReply(r) == TranslateReplyFrom(r, TranslateReplies)

(***************************************************************************)
(* /api/transcript/:videoId                                                *)
(***************************************************************************)
VideoIds == {"vid1", "vid2"}

TranscriptBodies == {[NoBody EXCEPT !.route = "transcript", !.videoId = i] : i \in VideoIds}

\* the response sent before the fetch, or NoResponse
TranscriptRejection(v, b) ==
  IF v \in ExtendedVariants /\ Falsy(b.videoId)
  THEN ErrorResponse(400, "Invalid video ID.") ELSE NoResponse

TranscriptCall(b) == [NoCall EXCEPT !.site = "transcript", !.id = b.videoId]

\* a reply of YoutubeTranscript.fetchTranscript: it rejects, or resolves
\* with a list of segments (or with nothing)
FetchReply(ok, list) ==
  [site |-> "fetch", ok |-> ok, choices |-> "missing", hasContent |-> FALSE,
   content |-> <<>>, list |-> list, translation |-> Absent]

TranscriptReplies ==
  { FetchReply(FALSE, Absent), FetchReply(TRUE, Absent),
    FetchReply(TRUE, Present(<<>>)),
    FetchReply(TRUE, Present(<<[text |-> Lit("a", 5)]>>)) }

TranscriptResponse(list) ==
  IF list.present
  THEN [SuccessResponse EXCEPT !.has = {"success", "transcript"},
                               !.transcript = list.val]
  ELSE [SuccessResponse EXCEPT !.has = {"success"}]

\* what follows the fetch: the response
TranscriptOutcome(v, reply) ==
  IF ~reply.ok THEN CatchResponse("UpstreamError")
  ELSE IF v \in ExtendedVariants /\ (~reply.list.present \/ Len(reply.list.val) = 0)
  THEN ErrorResponse(404, "No transcript available.")
  ELSE TranscriptResponse(reply.list)

TranscriptStartFrom(r, bodies) ==
  /\ pc[r] = "idle"
  /\ \E b \in bodies :
       /\ req' = [req EXCEPT ![r] = b]
       /\ LET rej == TranscriptRejection(variant, b)
          IN IF rej # NoResponse
             THEN Send(r, rej) /\ UNCHANGED calls
             ELSE Await(r, TranscriptCall(b), "awaitTranscript") /\ UNCHANGED resp
  /\ UNCHANGED <<variant, deeplKey, summary, replies>>

TranscriptStart(r) == TranscriptStartFrom(r, TranscriptBodies)

TranscriptReplyFrom(r, rs) ==
  /\ pc[r] = "awaitTranscript"
  /\ \E reply \in rs :
       /\ Receive(r, reply)
       /\ Send(r, TranscriptOutcome(variant, reply))
  /\ UNCHANGED <<variant, deeplKey, req, summary, calls>>

TranscriptReply(r) == TranscriptReplyFrom(r, TranscriptReplies)

(***************************************************************************)
(* /api/video-info/:videoId (the extended variants only)                   *)
(***************************************************************************)
VideoInfoBodies == {[NoBody EXCEPT !.route = "videoInfo", !.videoId = i] : i \in VideoIds}

VideoInfoRejection(b) ==
  IF Falsy(b.videoId) THEN ErrorResponse(400, "Missing videoId") ELSE NoResponse

VideoCall(b) == [NoCall EXCEPT !.site = "videos", !.id = b.videoId]

\* a reply of the YouTube Data API: it rejects, or resolves with data.items
\* missing, empty, or holding one item; hasContent says whether the item
\* has its snippet, contentDetails and statistics parts; content is the
\* snippet's channelId
YoutubeReply(ok, items, parts, channelId) ==
  [site |-> "youtube", ok |-> ok, choices |-> items, hasContent |-> parts,
   content |-> channelId, list |-> Absent, translation |-> Absent]

YoutubeReplies ==
  { YoutubeReply(FALSE, "missing", FALSE, <<>>),
    YoutubeReply(TRUE, "missing", FALSE, <<>>),
    YoutubeReply(TRUE, "empty", FALSE, <<>>),
    YoutubeReply(TRUE, "one", FALSE, <<>>),
    YoutubeReply(TRUE, "one", TRUE, <<"U", "C">>) }

ChannelCall(reply) ==
  [NoCall EXCEPT !.site = "channels", !.user = CharsToText(reply.content)]

VideoInfoResponse ==
  [SuccessResponse EXCEPT !.has = {"success", "videoInfo", "channelInfo"}]

VideoInfoStartFrom(r, bodies) ==
  /\ pc[r] = "idle"
  /\ variant \in ExtendedVariants
  /\ \E b \in bodies :
       /\ req' = [req EXCEPT ![r] = b]
       /\ LET rej == VideoInfoRejection(b)
          IN IF rej # NoResponse
             THEN Send(r, rej) /\ UNCHANGED calls
             ELSE Await(r, VideoCall(b), "awaitVideo") /\ UNCHANGED resp
  /\ UNCHANGED <<variant, deeplKey, summary, replies>>

VideoInfoStart(r) == VideoInfoStartFrom(r, VideoInfoBodies)

\* VideoReplyFrom without the test of the item list: the channels lookup is
\* issued for every reply that resolves
VideoReplyUnchecked(r, rs) ==
  /\ pc[r] = "awaitVideo"
  /\ \E reply \in rs :
       /\ Receive(r, reply)
       /\ IF ~reply.ok
          THEN Send(r, CatchResponse("UpstreamError")) /\ UNCHANGED calls
          ELSE Await(r, ChannelCall(reply), "awaitChannel") /\ UNCHANGED resp
  /\ UNCHANGED <<variant, deeplKey, req, summary>>

\* from the videos lookup's reply to the channels lookup (or the response)
VideoReplyFrom(r, rs) ==
  /\ pc[r] = "awaitVideo"
  /\ \E reply \in rs :
       /\ Receive(r, reply)
       /\ IF ~reply.ok
          THEN Send(r, CatchResponse("UpstreamError")) /\ UNCHANGED calls
          ELSE IF reply.choices # "one"
          THEN Send(r, ErrorResponse(404, "Video not found")) /\ UNCHANGED calls
          ELSE IF ~reply.hasContent
          THEN Send(r, CatchResponse("TypeError")) /\ UNCHANGED calls
          ELSE Await(r, ChannelCall(reply), "awaitChannel") /\ UNCHANGED resp
  /\ UNCHANGED <<variant, deeplKey, req, summary>>

VideoReply(r) == VideoReplyFrom(r, YoutubeReplies)

\* from the channels lookup's reply to the response
ChannelReplyFrom(r, rs) ==
  /\ pc[r] = "awaitChannel"
  /\ \E reply \in rs :
       /\ Receive(r, reply)
       /\ IF ~reply.ok THEN Send(r, CatchResponse("UpstreamError"))
          ELSE IF reply.choices # "one"
          THEN Send(r, ErrorResponse(404, "Channel not found"))
          ELSE IF ~reply.hasContent THEN Send(r, CatchResponse("TypeError"))
          ELSE Send(r, VideoInfoResponse)
  /\ UNCHANGED <<variant, deeplKey, req, summary, calls>>

ChannelReply(r) == ChannelReplyFrom(r, YoutubeReplies)

InitFor(ids) ==
  /\ variant \in Variants
  /\ deeplKey \in BOOLEAN
  /\ pc = [r \in ids |-> "idle"]
  /\ req = [r \in ids |-> NoBody]
  /\ summary = [r \in ids |-> <<>>]
  /\ calls = [r \in ids |-> <<>>]
  /\ replies = [r \in ids |-> <<>>]
  /\ resp = [r \in ids |-> <<>>]

\* one request at a time
RequestIds == {1}

Init == InitFor(RequestIds)

Next ==
  \/ \E r \in Requests : SummarizeStart(r)
  \/ \E r \in Requests : SummaryReply(r)
  \/ \E r \in Requests : ConceptMapReply(r)
  \/ \E r \in Requests : DetectStart(r)
  \/ \E r \in Requests : DetectReply(r)
  \/ \E r \in Requests : TranslateStart(r)
  \/ \E r \in Requests : TranslateReply(r)
  \/ \E r \in Requests : TranscriptStart(r)
  \/ \E r \in Requests : TranscriptReply(r)
  \/ \E r \in Requests : VideoInfoStart(r)
  \/ \E r \in Requests : VideoReply(r)
  \/ \E r \in Requests : ChannelReply(r)

Spec == Init /\ [][Next]_vars

\* a pending upstream call resolves or rejects: the step that takes the
\* reply of an awaiting request is eventually taken
ReplyStep ==
  \E r \in Requests :
    \/ SummaryReply(r) \/ ConceptMapReply(r) \/ DetectReply(r)
    \/ TranslateReply(r) \/ TranscriptReply(r) \/ VideoReply(r)
    \/ ChannelReply(r)

FairSpec == Init /\ [][Next]_vars /\ WF_vars(ReplyStep)

(***************************************************************************)
(* Several requests in flight at once.  The host dispatches requests       *)
(* independently, and a handler yields at each await, so the steps of      *)
(* different requests interleave in any order.  The handlers draw from a   *)
(* few of the bodies and replies of each route, different enough to tell   *)
(* one request's data from another's.                                      *)
(***************************************************************************)
NumRequests == 2

ConcBodies ==
  { [NoBody EXCEPT !.route = "summarize", !.language = "english",
                   !.length = "short",
                   !.transcript = Present(<<[text |-> Lit("a", 5)]>>)],
    [NoBody EXCEPT !.route = "summarize", !.language = "english",
                   !.length = "short",
                   !.transcript = Present(<<[text |-> Lit("b", 3994)]>>)],
    [NoBody EXCEPT !.route = "detect", !.text = Present(Lit("d", 50))],
    [NoBody EXCEPT !.route = "translate", !.text = Present(Lit("t", 20)),
                   !.targetLanguage = "italian"],
    [NoBody EXCEPT !.route = "transcript", !.videoId = "vid1"],
    [NoBody EXCEPT !.route = "videoInfo", !.videoId = "vid1"] }

ConcReplies ==
  { ChatReply(FALSE, "missing", FALSE, <<>>), ChatText(<<"S">>),
    ChatText(<<"S", "S">>), ChatText(CmSchemaText), ChatText(CmProseText),
    ChatText(<<"E", "N">>), DeeplReply(TRUE, "one", Present("ciao")),
    FetchReply(TRUE, Present(<<[text |-> Lit("a", 5)]>>)),
    YoutubeReply(TRUE, "one", TRUE, <<"U", "C">>) }

ConcInit == InitFor(1..NumRequests)

ConcNext ==
  \/ \E r \in Requests : SummarizeStartFrom(r, ConcBodies \cap SummarizeBodies)
  \/ \E r \in Requests : SummaryReplyFrom(r, ConcReplies \cap SummaryReplies)
  \/ \E r \in Requests : ConceptMapReplyFrom(r, ConcReplies \cap ConceptMapReplies)
  \/ \E r \in Requests : DetectStartFrom(r, ConcBodies \cap DetectBodies)
  \/ \E r \in Requests : DetectReplyFrom(r, ConcReplies \cap DetectReplies)
  \/ \E r \in Requests : TranslateStartFrom(r, ConcBodies \cap TranslateBodies)
  \/ \E r \in Requests : TranslateReplyFrom(r, ConcReplies \cap TranslateReplies)
  \/ \E r \in Requests : TranscriptStartFrom(r, ConcBodies \cap TranscriptBodies)
  \/ \E r \in Requests : TranscriptReplyFrom(r, ConcReplies \cap TranscriptReplies)
  \/ \E r \in Requests : VideoInfoStartFrom(r, ConcBodies \cap VideoInfoBodies)
  \/ \E r \in Requests : VideoReplyFrom(r, ConcReplies \cap YoutubeReplies)
  \/ \E r \in Requests : ChannelReplyFrom(r, ConcReplies \cap YoutubeReplies)

ConcSpec == ConcInit /\ [][ConcNext]_vars

(***************************************************************************)
(* Vocabulary of the properties.                                           *)
(***************************************************************************)
Done(r) == pc[r] = "done" /\ Len(resp[r]) >= 1

\* the response of a finished request
Response(r) == resp[r][1]

IsSummarize(r) == req[r].route = "summarize"

\* the transcript of the request is missing or is an empty array
EmptyTranscript(r) ==
  ~req[r].transcript.present \/ Len(req[r].transcript.val) = 0

\* a chat reply that carries text
ReturnsText(reply) == reply.ok /\ reply.choices = "one" /\ reply.hasContent

\* the reply to the summary call was received and carried text
SummaryCallSucceeded(r) == Len(replies[r]) >= 1 /\ ReturnsText(replies[r][1])

\* the reply to the concept-map call was received and carried text
ConceptMapReturnedText(r) == Len(replies[r]) >= 2 /\ ReturnsText(replies[r][2])

CallsAt(r, site) == SelectSeq(calls[r], LAMBDA c : c.site = site)

Member(o, k) == o.items[CHOOSE n \in 1..Len(o.keys) : o.keys[n] = k]

HasMember(o, k) == o.t = "object" /\ \E n \in 1..Len(o.keys) : o.keys[n] = k

\* a node list root, 1, 2 and the edge list root->1, root->2, under any two
\* member names
IsFixedFallback(v) ==
  /\ v.t = "object"
  /\ Len(v.items) = 2
  /\ v.items[1].t = "array"
  /\ Len(v.items[1].items) = 3
  /\ \A n \in 1..3 : HasMember(v.items[1].items[n], KId)
  /\ [n \in 1..3 |-> Member(v.items[1].items[n], KId)]
       = <<JStr(SRoot), JStr(SOne), JStr(STwo)>>
  /\ v.items[2] = JArr(<<JEdge(SRoot, SOne), JEdge(SRoot, STwo)>>)

(***************************************************************************)
(* C1.  A summarize request whose summary call succeeds and whose          *)
(* concept-map call returns text that is not valid JSON is answered        *)
(* success:true with the fixed fallback concept map (root, two subtopics,  *)
(* edges root->1 and root->2).  Fails: serverB parses outside any try and  *)
(* answers 500; part001 and part003 substitute { error: ... }.             *)
(***************************************************************************)
C1_FallbackOnInvalidJson ==
  \A r \in Requests :
    (/\ IsSummarize(r)
     /\ ~EmptyTranscript(r)
     /\ SummaryCallSucceeded(r)
     /\ ConceptMapReturnedText(r)
     /\ ~JSONParse(replies[r][2].content).ok)
    => /\ Done(r)
       /\ Response(r).success
       /\ "conceptMap" \in Response(r).has
       /\ IsFixedFallback(Response(r).conceptMap)

(***************************************************************************)
(* C2.  max_tokens of the summary call follows the variant's table, and an *)
(* unrecognized or missing length gets the table's medium budget.  Stated  *)
(* for the variants whose handler reads `length` and for requests with a   *)
(* transcript to summarize.  Fails: serverA gives an unrecognized length    *)
(* 500, the short budget of its table.                                     *)
(***************************************************************************)
C2_BasicTable(length) ==
  CASE length = "short" -> 300
    [] length = "long" -> 800
    [] OTHER -> 500

C2_ExtendedTable(length) ==
  CASE length = "short" -> 500
    [] length = "long" -> 1200
    [] OTHER -> 800

C2_TokenBudgetTable ==
  \A r \in Requests :
    (/\ IsSummarize(r)
     /\ ~EmptyTranscript(r)
     /\ variant # "part004"
     /\ Len(calls[r]) >= 1)
    => calls[r][1].max_tokens =
         IF variant = "serverA" THEN C2_ExtendedTable(req[r].length)
         ELSE C2_BasicTable(req[r].length)

(***************************************************************************)
(* C3.  A summarize request whose transcript is missing or empty issues no *)
(* upstream call and ends in a failure response.  Fails: only part003      *)
(* tests the length; elsewhere an empty array reaches the summary call.    *)
(***************************************************************************)
C3_EmptyTranscriptRejected ==
  \A r \in Requests :
    (IsSummarize(r) /\ EmptyTranscript(r))
    => /\ calls[r] = <<>>
       /\ Done(r)
       /\ ~Response(r).success

(***************************************************************************)
(* C4.  A success response to a summarize request with a non-empty         *)
(* transcript never carries an empty summary.  Fails: a reply of only      *)
(* whitespace is trimmed to "" and returned with success:true.             *)
(***************************************************************************)
C4_SummaryNeverEmpty ==
  \A r \in Requests :
    (IsSummarize(r) /\ ~EmptyTranscript(r) /\ Done(r) /\ Response(r).success)
    => Response(r).summary # <<>>

(***************************************************************************)
(* C5.  When the concept-map call returns text that parses as JSON, the    *)
(* request succeeds and conceptMap is the parsed value itself, whatever    *)
(* its shape.                                                              *)
(***************************************************************************)
C5_ParsedValuePassedThrough ==
  \A r \in Requests :
    (/\ IsSummarize(r)
     /\ ConceptMapReturnedText(r)
     /\ JSONParse(replies[r][2].content).ok)
    => /\ Done(r)
       /\ Response(r).status = 200
       /\ Response(r).success
       /\ "conceptMap" \in Response(r).has
       /\ Response(r).conceptMap = JSONParse(replies[r][2].content).val

\* a value without nodes or edges was returned as conceptMap
C5_Witness ==
  \E r \in Requests :
    /\ IsSummarize(r)
    /\ ConceptMapReturnedText(r)
    /\ JSONParse(replies[r][2].content).ok
    /\ ~HasMember(JSONParse(replies[r][2].content).val, KNodes)
    /\ Done(r)
    /\ Response(r).success
    /\ Response(r).conceptMap = JNull

(***************************************************************************)
(* C6.  As claimed: a successful summarize request issued exactly one      *)
(* summary call and exactly one concept-map call, and the user message of  *)
(* the concept-map call is the trimmed summary returned to the caller.     *)
(* Fails in part004, whose summarize returns the summary alone and makes   *)
(* no concept-map call.                                                    *)
(***************************************************************************)
C6_OneCallEach ==
  \A r \in Requests :
    (IsSummarize(r) /\ Done(r) /\ Response(r).success)
    => /\ Len(CallsAt(r, "summary")) = 1
       /\ Len(CallsAt(r, "conceptMap")) = 1
       /\ Len(calls[r]) = 2
       /\ calls[r][2].site = "conceptMap"
       /\ calls[r][2].user = CharsToText(Response(r).summary)

(***************************************************************************)
(* C6 as amended.  A summarize request never issues more than one summary  *)
(* call or more than one concept-map call; a concept-map call is issued    *)
(* only after the summary call returned text, and its user message is      *)
(* that text trimmed; a successful request issued exactly one summary      *)
(* call, returns that trimmed text as summary, and issued exactly one      *)
(* concept-map call, except in the summary-only variant (part004), which   *)
(* issued none.                                                            *)
(***************************************************************************)
C6_SequentialCalls ==
  \A r \in Requests :
    IsSummarize(r)
    => /\ Len(CallsAt(r, "summary")) <= 1
       /\ Len(CallsAt(r, "conceptMap")) <= 1
       /\ CallsAt(r, "conceptMap") # <<>>
            => /\ SummaryCallSucceeded(r)
               /\ Len(calls[r]) = 2
               /\ calls[r][1].site = "summary"
               /\ calls[r][2].site = "conceptMap"
               /\ calls[r][2].user = CharsToText(Trim(replies[r][1].content))
       /\ (Done(r) /\ Response(r).success)
            => /\ Len(CallsAt(r, "summary")) = 1
               /\ Response(r).summary = Trim(replies[r][1].content)
               /\ Len(CallsAt(r, "conceptMap"))
                    = IF variant = "part004" THEN 0 ELSE 1

\* a padded summary reached the concept-map call trimmed, and the request
\* succeeded
C6_Witness ==
  \E r \in Requests :
    /\ IsSummarize(r)
    /\ Done(r)
    /\ Response(r).success
    /\ replies[r][1].content = <<" ", "S">>
    /\ Len(calls[r]) = 2
    /\ calls[r][2].user = <<Piece("S", 1)>>
    /\ Response(r).summary = <<"S">>

(***************************************************************************)
(* C7.  As claimed: the user message of the summary call is the first N    *)
(* characters of the segment texts joined with single spaces (N = 8000 in  *)
(* the extended variants, 4000 in the others), so that its length is N     *)
(* when the joined text is longer.  Fails in serverA and part004, which    *)
(* wrap the cut text in "Transcript:" and an instructions block.           *)
(***************************************************************************)
C7_Limit == IF variant \in {"serverA", "part004"} THEN 8000 ELSE 4000

\* the segment texts in order, one space between two neighbours
RECURSIVE C7_Joined(_)
C7_Joined(segs) ==
  IF Len(segs) = 0 THEN <<>>
  ELSE IF Len(segs) = 1 THEN segs[1].text
  ELSE C7_Joined(SubSeq(segs, 1, Len(segs) - 1)) \o <<Piece(" ", 1)>>
         \o segs[Len(segs)].text

RECURSIVE IsPrefixText(_, _)
IsPrefixText(p, t) ==
  \/ p = <<>>
  \/ /\ t # <<>>
     /\ Head(p).lit = Head(t).lit
     /\ \/ Head(p).len = Head(t).len /\ IsPrefixText(Tail(p), Tail(t))
        \/ Head(p).len < Head(t).len /\ Tail(p) = <<>>

\* p is the first n characters of t (all of t when t is shorter)
C7_IsCut(p, t, n) ==
  /\ IsPrefixText(p, t)
  /\ TextLen(p) = IF TextLen(t) > n THEN n ELSE TextLen(t)

C7_PromptIsCutText ==
  \A r \in Requests :
    (IsSummarize(r) /\ ~EmptyTranscript(r) /\ Len(calls[r]) >= 1)
    => C7_IsCut(calls[r][1].user, C7_Joined(req[r].transcript.val), C7_Limit)

(***************************************************************************)
(* C7 as amended.  The transcript text inside the user message of the      *)
(* summary call is the first N characters of the joined segment texts and  *)
(* nothing beyond them is sent.  In the 4000 variants the user message is  *)
(* that text alone (length N when the joined text is longer); in the 8000  *)
(* variants it is "Transcript:\n\n", that text, then the instructions      *)
(* block, so the message is at least 155 characters longer than the text.  *)
(***************************************************************************)
C7_TranscriptPartIsCutText ==
  \A r \in Requests :
    (IsSummarize(r) /\ Len(calls[r]) >= 1)
    => LET user == calls[r][1].user
           joined == C7_Joined(req[r].transcript.val)
       IN IF variant \in {"serverA", "part004"}
          THEN /\ Len(user) >= 2
               /\ user[1] = Piece("Transcript:\n\n", 13)
               /\ \E k \in 0..(Len(user) - 2) :
                    /\ C7_IsCut(SubSeq(user, 2, k + 1), joined, C7_Limit)
                    /\ user[k + 2] = Piece(InstructionsText, 142)
                    /\ TextLen(user) >= TextLen(SubSeq(user, 2, k + 1)) + 155
          ELSE C7_IsCut(user, joined, C7_Limit)

\* a joined text of more than 8000 characters was cut to 8000 and sent
\* inside the template
C7_Witness ==
  \E r \in Requests :
    /\ IsSummarize(r)
    /\ variant = "serverA"
    /\ Len(calls[r]) >= 1
    /\ TextLen(C7_Joined(req[r].transcript.val)) > 8000
    /\ TextLen(calls[r][1].user) > 8000
    /\ TextLen(SubSeq(calls[r][1].user, 2, Len(calls[r][1].user) - 5)) = 8000

(***************************************************************************)
(* C8.  As claimed: target_lang sent to the translation API is the code of *)
(* the closed table, and EN for every name outside it.  Fails in serverA   *)
(* and part004, which send targetLanguage upper-cased.                     *)
(***************************************************************************)
IsTranslate(r) == req[r].route = "translate"

C8_TableNames ==
  {"english", "italian", "spanish", "french", "german", "portuguese"}

C8_Table(name) ==
  CASE name = "english" -> "EN"
    [] name = "italian" -> "IT"
    [] name = "spanish" -> "ES"
    [] name = "french" -> "FR"
    [] name = "german" -> "DE"
    [] name = "portuguese" -> "PT"
    [] OTHER -> "EN"

C8_InheritedNames == {"toString"}

C8_UpperCased(name) ==
  CASE name = "english" -> "ENGLISH"
    [] name = "italian" -> "ITALIAN"
    [] name = "spanish" -> "SPANISH"
    [] name = "french" -> "FRENCH"
    [] name = "german" -> "GERMAN"
    [] name = "portuguese" -> "PORTUGUESE"
    [] name = "klingon" -> "KLINGON"
    [] name = "it" -> "IT"
    [] name = "toString" -> "TOSTRING"

IsDetect(r) == req[r].route = "detect"

C9_Whitespace == {" ", "\n", "\t", "\r"}

C9_Lower(c) == IF c = "E" THEN "e" ELSE IF c = "N" THEN "n" ELSE c

C9_Expected(cs) ==
  LET inked == {i \in 1..Len(cs) : cs[i] \notin C9_Whitespace}
  IN IF inked = {} THEN <<>>
     ELSE LET lo == CHOOSE i \in inked : \A j \in inked : i <= j
              hi == CHOOSE i \in inked : \A j \in inked : j <= i
          IN [k \in 1..(hi - lo + 1) |-> C9_Lower(cs[lo + k - 1])]

C9_LanguageTrimmedLowerCased ==
  \A r \in Requests :
    (IsDetect(r) /\ Len(replies[r]) >= 1 /\ ReturnsText(replies[r][1]))
    => /\ Done(r)
       /\ Response(r).status = 200
       /\ Response(r).success
       /\ Response(r).has = {"success", "language"}
       /\ Response(r).language = C9_Expected(replies[r][1].content)

\* the reply " EN\n" was answered with "en"
C9_Witness ==
  \E r \in Requests :
    /\ IsDetect(r)
    /\ Done(r)
    /\ Len(replies[r]) = 1
    /\ replies[r][1].content = <<" ", "E", "N", "\n">>
    /\ Response(r).language = <<"e", "n">>

(***************************************************************************)
(* C10.  Every failure (invalid input, upstream failure, empty generation, *)
(* not found) ends in an error-status response { success: false, error },  *)
(* and a success:false body carries no result field.  Fails: input the     *)
(* handlers do not validate (an empty transcript, an empty or missing      *)
(* text) goes upstream and the request can end in 200 success:true.        *)
(***************************************************************************)
InvalidInput(r) ==
  \/ IsSummarize(r) /\ EmptyTranscript(r)
  \/ IsDetect(r) /\ (~req[r].text.present \/ req[r].text.val = <<>>)
  \/ IsTranslate(r) /\ (~req[r].text.present \/ req[r].text.val = <<>>
                         \/ Falsy(req[r].targetLanguage))

UpstreamFailure(r) == \E n \in 1..Len(replies[r]) : ~replies[r][n].ok

\* zero completions at the summary or the detection step
EmptyGeneration(r) ==
  /\ IsSummarize(r) \/ IsDetect(r)
  /\ Len(replies[r]) >= 1
  /\ replies[r][1].ok
  /\ replies[r][1].choices # "one"

\* the transcript source or the YouTube Data API found nothing
NotFound(r) ==
  \E n \in 1..Len(replies[r]) :
    /\ replies[r][n].ok
    /\ \/ /\ replies[r][n].site = "fetch"
          /\ (~replies[r][n].list.present \/ replies[r][n].list.val = <<>>)
       \/ replies[r][n].site = "youtube" /\ replies[r][n].choices # "one"

ResultFields ==
  {"summary", "conceptMap", "translation", "language", "transcript",
   "videoInfo", "channelInfo"}

C10_FailuresAreErrorResponses ==
  \A r \in Requests :
    Done(r)
    => /\ (InvalidInput(r) \/ UpstreamFailure(r) \/ EmptyGeneration(r) \/ NotFound(r))
            => /\ Response(r).status >= 400
               /\ ~Response(r).success
               /\ "error" \in Response(r).has
       /\ ~Response(r).success => Response(r).has \cap ResultFields = {}

(***************************************************************************)
(* C11.  If the summary call returns an empty choice list, the summarize   *)
(* request ends at once in a failure response: no concept-map call is      *)
(* issued and the one response sent is success:false, with an error status *)
(* and neither a summary nor a concept map.                                *)
(***************************************************************************)
SummaryChoicesEmpty(r) ==
  /\ IsSummarize(r)
  /\ Len(replies[r]) >= 1
  /\ replies[r][1].ok
  /\ replies[r][1].choices = "empty"

C11_EmptyChoicesAbort ==
  \A r \in Requests :
    SummaryChoicesEmpty(r)
    => /\ pc[r] = "done"
       /\ CallsAt(r, "conceptMap") = <<>>
       /\ Len(calls[r]) = 1
       /\ Len(resp[r]) = 1
       /\ ~Response(r).success
       /\ Response(r).status >= 400
       /\ Response(r).has \cap {"summary", "conceptMap"} = {}

\* the empty choice list arrives for a transcript that was sent upstream, in
\* the variant that tests for it
C11_Witness ==
  \E r \in Requests :
    /\ SummaryChoicesEmpty(r)
    /\ ~EmptyTranscript(r)
    /\ variant = "part003"
    /\ Done(r)
    /\ Response(r) = CatchResponse("OpenAI returned an empty response")

(***************************************************************************)
(* C12.  If the summary call or the concept-map call of a summarize        *)
(* request is rejected (upstream unreachable or error status), the         *)
(* response is success:false; when the summary call succeeded and the      *)
(* concept-map call is rejected, the response carries no summary and no    *)
(* concept map (the fallback is not substituted).                          *)
(***************************************************************************)
GenerationRejected(r) ==
  /\ IsSummarize(r)
  /\ \E n \in 1..Len(replies[r]) : ~replies[r][n].ok

C12_UpstreamFailureFailsWhole ==
  \A r \in Requests :
    GenerationRejected(r)
    => /\ pc[r] = "done"
       /\ Len(resp[r]) = 1
       /\ ~Response(r).success
       /\ Response(r).status = 500
       /\ Response(r).has = {"success", "error"}
       /\ Response(r).summary = <<>>
       /\ Response(r).conceptMap = JNull

\* a summary was obtained, then the concept-map call is rejected
C12_Witness ==
  \E r \in Requests :
    /\ IsSummarize(r)
    /\ ~EmptyTranscript(r)
    /\ variant \in GuardedParseVariants
    /\ SummaryCallSucceeded(r)
    /\ summary[r] = <<"S">>
    /\ Len(replies[r]) = 2
    /\ ~replies[r][2].ok
    /\ Done(r)
    /\ Response(r) = CatchResponse("UpstreamError")

(***************************************************************************)
(* C13.  Summarize recovers locally from one fault only, concept-map text  *)
(* that is not valid JSON: a success:true response with the fallback       *)
(* concept map is sent only when the concept-map call returned text that   *)
(* does not parse, and every other fault of a generation call (rejected,   *)
(* choices missing or empty, no message content) ends in success:false.    *)
(* Fails: the inner try also covers the read of choices[0].message.content,*)
(* so a concept-map reply without choices or content gets the fallback.    *)
(***************************************************************************)
\* reply n of the request is a fault other than unparseable text
OtherFault(r, n) == n <= Len(replies[r]) /\ ~ReturnsText(replies[r][n])

\* the summary call returned nothing but whitespace
C13_BlankSummary(r) == SummaryCallSucceeded(r) /\ summary[r] = <<>>

C13_FallbackReturned(r) ==
  /\ Response(r).success
  /\ "conceptMap" \in Response(r).has
  /\ Response(r).conceptMap = FallbackConceptMap(variant)

C13_OnlyParseFailureRecovered ==
  \A r \in Requests :
    (IsSummarize(r) /\ ~EmptyTranscript(r) /\ ~C13_BlankSummary(r) /\ Done(r))
    => /\ (OtherFault(r, 1) \/ OtherFault(r, 2)) => ~Response(r).success
       /\ C13_FallbackReturned(r)
            => /\ ConceptMapReturnedText(r)
               /\ ~JSONParse(Trim(replies[r][2].content)).ok

(***************************************************************************)
(* C14.  No upstream call is retried: a request invokes each of its call   *)
(* sites at most once, it has at most one call without a reply, and a      *)
(* rejected call is the request's last call and ends it in a failure       *)
(* response.                                                               *)
(***************************************************************************)
CallSites ==
  {"summary", "conceptMap", "detect", "translate", "transcript", "videos",
   "channels"}

\* the call sites a request of each route may use
RouteSites(route) ==
  CASE route = "summarize" -> {"summary", "conceptMap"}
    [] route = "detect" -> {"detect"}
    [] route = "translate" -> {"translate"}
    [] route = "transcript" -> {"transcript"}
    [] route = "videoInfo" -> {"videos", "channels"}
    [] OTHER -> {}

C14_NoRetry ==
  \A r \in Requests :
    /\ \A site \in CallSites : Len(CallsAt(r, site)) <= 1
    /\ \A n \in 1..Len(calls[r]) : calls[r][n].site \in RouteSites(req[r].route)
    /\ Len(replies[r]) <= Len(calls[r])
    /\ Len(calls[r]) <= Len(replies[r]) + 1
    /\ \A n \in 1..Len(replies[r]) :
         ~replies[r][n].ok
         => /\ Len(calls[r]) = n
            /\ pc[r] = "done"
            /\ Len(resp[r]) = 1
            /\ ~Response(r).success

\* the summary call of a request is rejected: the request ends there, with
\* the one call
C14_Witness ==
  \E r \in Requests :
    /\ IsSummarize(r)
    /\ ~EmptyTranscript(r)
    /\ Len(calls[r]) = 1
    /\ calls[r][1].site = "summary"
    /\ Len(replies[r]) = 1
    /\ ~replies[r][1].ok
    /\ Done(r)
    /\ Response(r) = CatchResponse("UpstreamError")

(***************************************************************************)
(* C15.  A request with a missing or empty required field (summarize       *)
(* without transcript, language or length; detect-language without text;   *)
(* translate without text or targetLanguage) is answered 400 with          *)
(* success:false, and no upstream call is made for it.  Fails: only the    *)
(* extended variants test their fields; the others use the fields as they  *)
(* come, and answer 500 or go upstream.                                    *)
(***************************************************************************)
\* a required field of the request is missing or empty (for translate, with
\* the translation API key configured, so that the key check does not answer)
MissingField(r) ==
  \/ /\ IsSummarize(r)
     /\ (~req[r].transcript.present \/ Falsy(req[r].language)
          \/ Falsy(req[r].length))
  \/ IsDetect(r) /\ (~req[r].text.present \/ req[r].text.val = <<>>)
  \/ /\ IsTranslate(r)
     /\ deeplKey
     /\ (~req[r].text.present \/ req[r].text.val = <<>>
          \/ Falsy(req[r].targetLanguage))

C15_MissingFieldIsClientError ==
  \A r \in Requests :
    MissingField(r)
    => /\ pc[r] = "done"
       /\ calls[r] = <<>>
       /\ Len(resp[r]) = 1
       /\ Response(r).status = 400
       /\ ~Response(r).success

(***************************************************************************)
(* C16.  Requests share no mutable state: with the steps of several        *)
(* requests interleaved in any order, the response of each request is the  *)
(* one its handler computes from that request's own body and its own       *)
(* upstream replies, its summary call is built from its own body, and its  *)
(* concept-map call carries its own summary.                               *)
(***************************************************************************)
\* the response of the summarize handler run alone on body b with replies rs
SummarizeAlone(v, b, rs) ==
  IF SummarizeRejection(v, b) # NoResponse THEN SummarizeRejection(v, b)
  ELSE IF ~b.transcript.present THEN CatchResponse("TypeError")
  ELSE LET s == SummaryOutcome(v, rs[1])
       IN IF ~s.ok THEN CatchResponse(s.error)
          ELSE IF v \notin ConceptMapVariants THEN SummaryOnlyResponse(s.summary)
          ELSE LET cm == ConceptMapOutcome(v, rs[2])
               IN IF cm.ok THEN SummarizeResponse(s.summary, cm.conceptMap)
                  ELSE CatchResponse(cm.error)

DetectAlone(v, b, rs) ==
  IF DetectRejection(v, b) # NoResponse THEN DetectRejection(v, b)
  ELSE LET out == DetectOutcome(rs[1])
       IN IF out.ok THEN DetectResponse(out.language)
          ELSE CatchResponse(out.error)

TranslateAlone(v, key, b, rs) ==
  IF TranslateRejection(v, key, b) # NoResponse THEN TranslateRejection(v, key, b)
  ELSE LET out == TranslateOutcome(rs[1])
       IN IF out.ok THEN TranslateResponse(out.translation)
          ELSE CatchResponse(out.error)

TranscriptAlone(v, b, rs) ==
  IF TranscriptRejection(v, b) # NoResponse THEN TranscriptRejection(v, b)
  ELSE TranscriptOutcome(v, rs[1])

VideoInfoAlone(b, rs) ==
  IF VideoInfoRejection(b) # NoResponse THEN VideoInfoRejection(b)
  ELSE IF ~rs[1].ok THEN CatchResponse("UpstreamError")
  ELSE IF rs[1].choices # "one" THEN ErrorResponse(404, "Video not found")
  ELSE IF ~rs[1].hasContent THEN CatchResponse("TypeError")
  ELSE IF ~rs[2].ok THEN CatchResponse("UpstreamError")
  ELSE IF rs[2].choices # "one" THEN ErrorResponse(404, "Channel not found")
  ELSE IF ~rs[2].hasContent THEN CatchResponse("TypeError")
  ELSE VideoInfoResponse

AloneResponse(v, key, b, rs) ==
  CASE b.route = "summarize" -> SummarizeAlone(v, b, rs)
    [] b.route = "detect" -> DetectAlone(v, b, rs)
    [] b.route = "translate" -> TranslateAlone(v, key, b, rs)
    [] b.route = "transcript" -> TranscriptAlone(v, b, rs)
    [] b.route = "videoInfo" -> VideoInfoAlone(b, rs)
    [] OTHER -> NoResponse

C16_RequestsIndependent ==
  \A r \in Requests :
    /\ Len(resp[r]) >= 1
         => /\ Len(resp[r]) = 1
            /\ Response(r) = AloneResponse(variant, deeplKey, req[r], replies[r])
    /\ (IsSummarize(r) /\ Len(calls[r]) >= 1)
         => calls[r][1] = SummaryCall(variant, req[r])
    /\ (IsSummarize(r) /\ Len(calls[r]) >= 2)
         => /\ calls[r][2].site = "conceptMap"
            /\ calls[r][2].user
                 = CharsToText(SummaryOutcome(variant, replies[r][1]).summary)

\* two summarize requests in flight together, both awaiting their concept
\* map: each concept-map call carries the summary of its own request
C16_Witness ==
  \E r \in Requests, q \in Requests :
    /\ r # q
    /\ IsSummarize(r) /\ IsSummarize(q)
    /\ req[r] # req[q]
    /\ pc[r] = "awaitConceptMap" /\ pc[q] = "awaitConceptMap"
    /\ summary[r] = <<"S">>
    /\ summary[q] = <<"S", "S">>
    /\ calls[r][2].user = CharsToText(<<"S">>)
    /\ calls[q][2].user = CharsToText(<<"S", "S">>)

(***************************************************************************)
(* C17.  Every request receives exactly one response: a handler never      *)
(* sends a second response, it has sent its response exactly when it has   *)
(* returned, a response once sent is not changed, and, provided each       *)
(* pending upstream call eventually returns or fails, every request that   *)
(* was taken up is eventually answered.                                    *)
(***************************************************************************)
C17_ExactlyOneResponse ==
  /\ [](\A r \in RequestIds :
          /\ Len(resp[r]) <= 1
          /\ pc[r] = "done" <=> Len(resp[r]) = 1)
  /\ [][\A r \in RequestIds : Len(resp[r]) = 1 => resp'[r] = resp[r]]_vars
  /\ \A r \in RequestIds : (pc[r] # "idle") ~> (Len(resp[r]) = 1)

\* the longest path of a handler, through both awaits and the inner catch,
\* ends with its one response
C17_Witness ==
  \E r \in Requests :
    /\ IsSummarize(r)
    /\ ~EmptyTranscript(r)
    /\ Len(replies[r]) = 2
    /\ ConceptMapReturnedText(r)
    /\ ~JSONParse(Trim(replies[r][2].content)).ok
    /\ variant = "serverA"
    /\ pc[r] = "done"
    /\ Len(resp[r]) = 1
    /\ Response(r).conceptMap = FallbackNodesEdges

(***************************************************************************)
(* C18.  In the video-info route the channels lookup is issued only after  *)
(* the videos lookup returned at least one item: a videos lookup without   *)
(* items is answered 404 "Video not found" with no channels lookup, a      *)
(* channels lookup without items is answered 404 "Channel not found", and  *)
(* the success response with videoInfo and channelInfo is sent only after  *)
(* both lookups returned an item.                                          *)
(***************************************************************************)
IsVideoInfo(r) == req[r].route = "videoInfo"

\* reply n of the request resolved with data.items missing or empty
NoItems(r, n) ==
  Len(replies[r]) >= n /\ replies[r][n].ok /\ replies[r][n].choices # "one"

\* reply n of the request resolved with an item
OneItem(r, n) ==
  Len(replies[r]) >= n /\ replies[r][n].ok /\ replies[r][n].choices = "one"

C18_ChannelAfterVideo ==
  \A r \in Requests :
    IsVideoInfo(r)
    => /\ CallsAt(r, "channels") # <<>>
            => /\ Len(calls[r]) = 2
               /\ calls[r][1].site = "videos"
               /\ calls[r][2].site = "channels"
               /\ OneItem(r, 1)
       /\ NoItems(r, 1)
            => /\ Done(r)
               /\ Response(r) = ErrorResponse(404, "Video not found")
               /\ CallsAt(r, "channels") = <<>>
       /\ NoItems(r, 2)
            => /\ Done(r)
               /\ Response(r) = ErrorResponse(404, "Channel not found")
       /\ (Done(r) /\ Response(r).success)
            => /\ Response(r).has = {"success", "videoInfo", "channelInfo"}
               /\ OneItem(r, 1)
               /\ OneItem(r, 2)

\* both lookups were made, and the channels lookup found nothing
C18_Witness ==
  \E r \in Requests :
    /\ IsVideoInfo(r)
    /\ Len(calls[r]) = 2
    /\ OneItem(r, 1)
    /\ NoItems(r, 2)
    /\ replies[r][2].choices = "empty"
    /\ Done(r)
    /\ Response(r).status = 404

====
